---- MODULE Spec2Model ----
(***************************************************************************)
(* Model of src/framework/operations.hpp (namespace AER::Operations): the  *)
(* JSON -> Op deserialisation functions and their validation.              *)
(*                                                                         *)
(* A JSON record is a TLA+ record of fields; every field is either Absent  *)
(* or a typed value.  Each json_to_op_* function is an operator from a     *)
(* record to a result [err, op]: err = "OK" and the Op that is returned,   *)
(* or the exception that is thrown (and then no Op).  One action per       *)
(* function applies it to an input record.                                 *)
(***************************************************************************)
EXTENDS Integers, Sequences, FiniteSets

VARIABLES js, called, res, round, prev

vars == <<js, called, res, round, prev>>

----------------------------------------------------------------------------
(* Bounds of the explored inputs *)

MaxQubit == 2

MaxLen == 3

MaxLabels == 2

MaxSub == 2

----------------------------------------------------------------------------
(* JSON values *)

Absent == [present |-> FALSE, type |-> "none", val |-> <<>>]

Field(t, v) == [present |-> TRUE, type |-> t, val |-> v]

EmptyList == Field("empty", <<>>)

NoName == [present |-> FALSE, type |-> "none", val |-> ""]

Name(s) == [present |-> TRUE, type |-> "string", val |-> s]

\* JSON::get_value(var, key, js): an absent key leaves var as it was
\* (default constructed); a present one is converted to var's type.
GetValue(f, default) == IF f.present THEN f.val ELSE default

\* the conversion of a present value to the requested type fails
\* (an empty JSON list converts to every vector type)
TypeError(f, t) == f.present /\ f.type # t /\ f.type # "empty"

----------------------------------------------------------------------------
(* struct Op *)

DefaultOp ==
  [name |-> "", conditional |-> FALSE, qubits |-> <<>>,
   memory |-> <<>>, registers |-> <<>>,
   params_string |-> <<>>, params_double |-> <<>>, params_complex |-> <<>>,
   params_cvector |-> <<>>, params_cmatrix |-> <<>>, params_reg |-> <<>>]

Return(op) == [err |-> "OK", op |-> op]

Throw(e) == [err |-> e, op |-> DefaultOp]

NoResult == [err |-> "none", op |-> DefaultOp]

----------------------------------------------------------------------------
(* Helpers on sequences *)

Range(s) == {s[i] : i \in 1..Len(s)}

SeqsUpTo(S, n) == UNION {[1..k -> S] : k \in 0..n}

SeqsOfLen(S, k) == [1..k -> S]

Iota(k) == [i \in 1..k |-> i]

Zeros(k) == [i \in 1..k |-> 0]

----------------------------------------------------------------------------
(* Error checking *)

\* std::unique(cpy.begin(), cpy.end()) on a copy, return value discarded:
\* the first element of every run of equal ADJACENT elements is moved to the
\* front; the container keeps its length and the positions behind the new
\* logical end are not written (moving a uint_t copies it).
RECURSIVE Dedup(_)
Dedup(s) ==
  IF Len(s) <= 1 THEN s
  ELSE LET d == Dedup(SubSeq(s, 1, Len(s) - 1))
       IN  IF d[Len(d)] = s[Len(s)] THEN d ELSE Append(d, s[Len(s)])

Unique(s) == Dedup(s) \o SubSeq(s, Len(Dedup(s)) + 1, Len(s))

\* check_qubits: "OK" or the exception thrown
check_qubits(qubits) ==
  IF qubits = <<>> THEN "EmptyQubits"
  ELSE IF Unique(qubits) # qubits THEN "DuplicateQubits"
  ELSE "OK"

----------------------------------------------------------------------------
(* Gates, measure, reset and the other plain constructors *)

json_to_op_gate_Checked(j) ==
  LET name == GetValue(j.name, "")
      qubits == GetValue(j.qubits, <<>>)
  IN  IF name = "" THEN Throw("MissingName")
      ELSE IF TypeError(j.qubits, "uints") THEN Throw("TypeError")
      ELSE IF check_qubits(qubits) # "OK" THEN Throw(check_qubits(qubits))
      ELSE IF TypeError(j.params, "reals") THEN Throw("TypeError")
      ELSE Return([DefaultOp EXCEPT !.name = name, !.qubits = qubits,
                                    !.params_double = GetValue(j.params, <<>>)])

json_to_op_gate(j) ==
  LET name == GetValue(j.name, "")
      qubits == GetValue(j.qubits, <<>>)
  IN  IF name = "" THEN Throw("MissingName")
      ELSE IF TypeError(j.qubits, "uints") THEN Throw("TypeError")
      ELSE IF qubits = <<>> THEN Throw("EmptyQubits")
      ELSE IF TypeError(j.params, "reals") THEN Throw("TypeError")
      ELSE Return([DefaultOp EXCEPT !.name = name, !.qubits = qubits,
                                    !.params_double = GetValue(j.params, <<>>)])

LengthDiffers_Always(list, qubits) == Len(list) # Len(qubits)

\* op.X.empty() == false && op.X.size() != op.qubits.size()
LengthDiffers(list, qubits) == list # <<>> /\ Len(list) # Len(qubits)

json_to_op_measure(j) ==
  LET qubits == GetValue(j.qubits, <<>>)
      memory == GetValue(j.memory, <<>>)
      registers == GetValue(j.register, <<>>)
  IN  IF TypeError(j.qubits, "uints") THEN Throw("TypeError")
      ELSE IF qubits = <<>> THEN Throw("EmptyQubits")
      ELSE IF TypeError(j.memory, "uints") THEN Throw("TypeError")
      ELSE IF LengthDiffers(memory, qubits) THEN Throw("LengthMismatch")
      ELSE IF TypeError(j.register, "uints") THEN Throw("TypeError")
      ELSE IF LengthDiffers(registers, qubits) THEN Throw("LengthMismatch")
      ELSE Return([DefaultOp EXCEPT !.name = "measure", !.qubits = qubits,
                                    !.memory = memory, !.registers = registers])

DefaultReset_None(params, qubits) == params

\* if (op.params_double.empty()) op.params_double = rvector_t(n, 0.)
DefaultReset(params, qubits) ==
  IF params = <<>> THEN Zeros(Len(qubits)) ELSE params

json_to_op_reset(j) ==
  LET qubits == GetValue(j.qubits, <<>>)
      params == DefaultReset(GetValue(j.params, <<>>), qubits)
  IN  IF TypeError(j.qubits, "uints") THEN Throw("TypeError")
      ELSE IF qubits = <<>> THEN Throw("EmptyQubits")
      ELSE IF TypeError(j.params, "reals") THEN Throw("TypeError")
      ELSE IF Len(params) # Len(qubits) THEN Throw("LengthMismatch")
      ELSE Return([DefaultOp EXCEPT !.name = "reset", !.qubits = qubits,
                                    !.params_double = params])

json_to_op_snapshot(j) ==
  LET params == GetValue(j.params, <<>>)
  IN  IF TypeError(j.params, "strings") THEN Throw("TypeError")
      ELSE Return([DefaultOp EXCEPT !.name = "snapshot",
             !.params_string = IF Len(params) = 1
                               THEN Append(params, "default") ELSE params])

\* the single matrix read from "params" is an opaque payload; an absent key
\* leaves the default-constructed matrix, which is still emplaced
json_to_op_mat(j) ==
  LET qubits == GetValue(j.qubits, <<>>)
  IN  IF TypeError(j.qubits, "uints") THEN Throw("TypeError")
      ELSE IF qubits = <<>> THEN Throw("EmptyQubits")
      ELSE IF TypeError(j.params, "cmatrix") THEN Throw("TypeError")
      ELSE Return([DefaultOp EXCEPT !.name = "mat", !.qubits = qubits,
                                    !.params_cmatrix = <<GetValue(j.params, <<>>)>>])

json_to_op_dmat(j) ==
  LET qubits == GetValue(j.qubits, <<>>)
  IN  IF TypeError(j.qubits, "uints") THEN Throw("TypeError")
      ELSE IF qubits = <<>> THEN Throw("EmptyQubits")
      ELSE IF TypeError(j.params, "complex") THEN Throw("TypeError")
      ELSE Return([DefaultOp EXCEPT !.name = "dmat", !.qubits = qubits,
                                    !.params_complex = GetValue(j.params, <<>>)])

json_to_op_kraus(j) ==
  LET qubits == GetValue(j.qubits, <<>>)
  IN  IF TypeError(j.qubits, "uints") THEN Throw("TypeError")
      ELSE IF qubits = <<>> THEN Throw("EmptyQubits")
      ELSE IF TypeError(j.params, "cmatrices") THEN Throw("TypeError")
      ELSE Return([DefaultOp EXCEPT !.name = "kraus", !.qubits = qubits,
                                    !.params_cmatrix = GetValue(j.params, <<>>)])

json_to_op_probs(j) ==
  LET qubits == GetValue(j.qubits, <<>>)
  IN  IF TypeError(j.qubits, "uints") THEN Throw("TypeError")
      ELSE IF qubits = <<>> THEN Throw("EmptyQubits")
      ELSE Return([DefaultOp EXCEPT !.name = "probs", !.qubits = qubits])

----------------------------------------------------------------------------
(* Pauli observable: sorting of the qubits and of the labels *)

\* a label (std::string) is a sequence of characters
PauliChars == {"X", "Z"}

\* s[size()] of a std::string is the terminating NUL
NUL == "NUL"

\* what a read s[pos] with pos > s.size() may deliver (undefined behaviour):
\* any byte that happens to lie behind the string
UBChars == PauliChars \cup {NUL, "?"}

\* std::sort(op.qubits.begin(), op.qubits.end())
RECURSIVE Sort(_)
Sort(s) ==
  IF s = <<>> THEN <<>>
  ELSE LET x == s[Len(s)]
           r == Sort(SubSeq(s, 1, Len(s) - 1))
           k == Cardinality({i \in 1..Len(r) : r[i] <= x})
       IN  SubSeq(r, 1, k) \o <<x>> \o SubSeq(r, k + 1, Len(r))

Find_FromEnd(v, q) ==
  IF q \in Range(v)
  THEN Len(v) - (CHOOSE i \in 1..Len(v) : v[i] = q /\ \A k \in 1..(i - 1) : v[k] # q)
  ELSE Len(v)

\* std::distance(v.begin(), std::find(v.begin(), v.end(), q)), 0-based
Find(v, q) ==
  IF q \in Range(v)
  THEN (CHOOSE i \in 1..Len(v) : v[i] = q /\ \A k \in 1..(i - 1) : v[k] # q) - 1
  ELSE Len(v)

\* s[pos], pos 0-based
CharAt(s, pos, ub) ==
  IF pos < Len(s) THEN s[pos + 1]
  ELSE IF pos = Len(s) THEN NUL
  ELSE ub

SortLabel_Unpermuted(s, sorted, unsorted, ub) ==
  [k \in 1..Len(sorted) |-> CharAt(s, k - 1, ub)]

\* srt of the inner loop: one character per sorted qubit
SortLabel(s, sorted, unsorted, ub) ==
  [k \in 1..Len(sorted) |-> CharAt(s, Find(unsorted, sorted[k]), ub)]

CoeffsDiffer_Greater(coeffs, labels) == Len(coeffs) > Len(labels)

\* op.params_complex.size() != op.params_string.size()
CoeffsDiffer(coeffs, labels) == Len(coeffs) # Len(labels)

json_to_op_obs_pauli(j, ub) ==
  LET unsorted == GetValue(j.qubits, <<>>)
      qubits == Sort(unsorted)
      params == GetValue(j.params, <<>>)
      coeffs == GetValue(j.coeffs, <<>>)
      labels == [i \in 1..Len(params) |->
                   SortLabel(params[i], qubits, unsorted, ub)]
  IN  IF TypeError(j.qubits, "uints") THEN Throw("TypeError")
      ELSE IF TypeError(j.params, "strings") THEN Throw("TypeError")
      ELSE IF TypeError(j.coeffs, "complex") THEN Throw("TypeError")
      ELSE IF qubits = <<>> THEN Throw("EmptyQubits")
      ELSE IF labels = <<>> THEN Throw("EmptyParams")
      ELSE IF \E i \in 1..Len(labels) : Len(labels[i]) # Len(qubits)
           THEN Throw("LabelLengthMismatch")
      ELSE IF CoeffsDiffer(coeffs, labels) THEN Throw("CoeffCountMismatch")
      ELSE Return([DefaultOp EXCEPT !.name = "obs_pauli", !.qubits = qubits,
                                    !.params_string = labels,
                                    !.params_complex = coeffs])

----------------------------------------------------------------------------
(* Matrix, diagonal and vector observables *)

RECURSIVE NumSub(_)
\* num_sub += reg.size() over all of op.params_reg
NumSub(regs) ==
  IF regs = <<>> THEN 0
  ELSE NumSub(SubSeq(regs, 1, Len(regs) - 1)) + Len(regs[Len(regs)])

\* qset.insert(reg.begin(), reg.end()) over all of op.params_reg
QSet(regs) == UNION {Range(regs[i]) : i \in 1..Len(regs)}

\* qset.size() != op.qubits.size() || num_sub != op.qubits.size()
NotCompatible(regs, qubits) ==
  Cardinality(QSet(regs)) # Len(qubits) \/ NumSub(regs) # Len(qubits)

json_to_op_obs_mat(j) ==
  LET qubits == GetValue(j.qubits, <<>>)
      regs == GetValue(j.sub_qubits, <<>>)
      mats == GetValue(j.sub_params, <<>>)
  IN  IF TypeError(j.qubits, "uints") THEN Throw("TypeError")
      ELSE IF TypeError(j.sub_qubits, "regs") THEN Throw("TypeError")
      ELSE IF TypeError(j.sub_params, "cmatrices") THEN Throw("TypeError")
      ELSE IF check_qubits(qubits) # "OK" THEN Throw(check_qubits(qubits))
      ELSE IF NotCompatible(regs, qubits) THEN Throw("BadPartition")
      ELSE IF Len(regs) # Len(mats) THEN Throw("PayloadCountMismatch")
      ELSE Return([DefaultOp EXCEPT !.name = "obs_mat", !.qubits = qubits,
                                    !.params_reg = regs, !.params_cmatrix = mats])

json_to_op_obs_dmat(j) ==
  LET qubits == GetValue(j.qubits, <<>>)
      regs == GetValue(j.sub_qubits, <<>>)
      vecs == GetValue(j.sub_params, <<>>)
  IN  IF TypeError(j.qubits, "uints") THEN Throw("TypeError")
      ELSE IF TypeError(j.sub_qubits, "regs") THEN Throw("TypeError")
      ELSE IF TypeError(j.sub_params, "cvectors") THEN Throw("TypeError")
      ELSE IF check_qubits(qubits) # "OK" THEN Throw(check_qubits(qubits))
      ELSE IF NotCompatible(regs, qubits) THEN Throw("BadPartition")
      ELSE IF Len(regs) # Len(vecs) THEN Throw("PayloadCountMismatch")
      ELSE Return([DefaultOp EXCEPT !.name = "obs_dmat", !.qubits = qubits,
                                    !.params_reg = regs, !.params_cvector = vecs])

json_to_op_obs_vec(j) ==
  LET qubits == GetValue(j.qubits, <<>>)
      regs == GetValue(j.sub_qubits, <<>>)
      vecs == GetValue(j.sub_params, <<>>)
  IN  IF TypeError(j.qubits, "uints") THEN Throw("TypeError")
      ELSE IF TypeError(j.sub_qubits, "regs") THEN Throw("TypeError")
      ELSE IF TypeError(j.sub_params, "cvectors") THEN Throw("TypeError")
      ELSE IF check_qubits(qubits) # "OK" THEN Throw(check_qubits(qubits))
      ELSE IF NotCompatible(regs, qubits) THEN Throw("BadPartition")
      ELSE IF Len(regs) # Len(vecs) THEN Throw("PayloadCountMismatch")
      ELSE Return([DefaultOp EXCEPT !.name = "obs_vec", !.qubits = qubits,
                                    !.params_reg = regs, !.params_cvector = vecs])

\* throw std::invalid_argument("Invalid observable operation.")
json_to_op_obs(j, ub) ==
  LET name == GetValue(j.name, "")
  IN  IF name = "obs_pauli" THEN json_to_op_obs_pauli(j, ub)
      ELSE IF name = "obs_mat" THEN json_to_op_obs_mat(j)
      ELSE IF name = "obs_dmat" THEN json_to_op_obs_dmat(j)
      ELSE IF name = "obs_vec" THEN json_to_op_obs_vec(j)
      ELSE Throw("UnknownName")

----------------------------------------------------------------------------
(* The dispatcher *)

json_to_op_Wired(j, ub) ==
  LET name == GetValue(j.name, "")
  IN  IF name = "" THEN Throw("MissingName")
      ELSE IF name = "measure" THEN json_to_op_measure(j)
      ELSE IF name = "reset" THEN json_to_op_reset(j)
      ELSE IF name = "mat" THEN json_to_op_mat(j)
      ELSE IF name = "dmat" THEN json_to_op_dmat(j)
      ELSE IF name = "probs" THEN json_to_op_probs(j)
      ELSE IF name \in {"obs_pauli", "obs_mat", "obs_dmat", "obs_vec"}
           THEN json_to_op_obs(j, ub)
      ELSE IF name = "snapshot" THEN json_to_op_snapshot(j)
      ELSE IF name = "kraus" THEN json_to_op_kraus(j)
      ELSE IF name \in {"bfunc", "roerror"} THEN Throw("UnknownName")
      ELSE json_to_op_gate(j)

json_to_op(j, ub) ==
  LET name == GetValue(j.name, "")
  IN  IF name = "" THEN Throw("MissingName")
      ELSE IF name = "measure" THEN json_to_op_measure(j)
      ELSE IF name = "reset" THEN json_to_op_reset(j)
      ELSE IF name = "mat" THEN json_to_op_mat(j)
      ELSE IF name = "dmat" THEN json_to_op_dmat(j)
      ELSE IF name = "probs" THEN json_to_op_probs(j)
      ELSE IF name = "obs_pauli" THEN json_to_op_obs_pauli(j, ub)
      ELSE IF name = "snapshot" THEN json_to_op_snapshot(j)
      ELSE IF name = "kraus" THEN json_to_op_kraus(j)
      ELSE json_to_op_gate(j)

----------------------------------------------------------------------------
(* The records the functions are applied to *)

NullRecord ==
  [name |-> NoName, qubits |-> Absent, params |-> Absent, memory |-> Absent,
   register |-> Absent, coeffs |-> Absent, sub_qubits |-> Absent,
   sub_params |-> Absent]

RecognizedKinds ==
  {"measure", "reset", "mat", "dmat", "probs", "obs_pauli", "snapshot", "kraus"}

ReservedKinds == {"obs_mat", "obs_dmat", "obs_vec", "bfunc", "roerror"}

OtherNames == {"h", "cx", "u3", "Measure", "RESET", "Obs_Pauli", "snapshots"}

NameFields ==
  {NoName, Name("")}
    \cup {Name(n) : n \in RecognizedKinds \cup ReservedKinds \cup OtherNames}

QubitIdx == 0..MaxQubit

QubitLists == SeqsUpTo(QubitIdx, MaxLen)

ListField(t, v) == IF v = <<>> THEN EmptyList ELSE Field(t, v)

QubitFields == {Absent} \cup {ListField("uints", q) : q \in QubitLists}

\* lists told apart by their length only: the code looks at nothing else
UintFields == {Absent} \cup {ListField("uints", Iota(k)) : k \in 0..(MaxLen + 1)}

RealFields ==
  {Absent, Field("strings", <<<<"X">>>>)}
    \cup {ListField("reals", Iota(k)) : k \in 0..(MaxLen + 1)}

ComplexFields == {Absent} \cup {ListField("complex", Iota(k)) : k \in 0..(MaxLabels + 1)}

PayloadFields(t) == {Absent} \cup {ListField(t, Iota(k)) : k \in 0..MaxSub}

GateRecord(n, q, p) == [NullRecord EXCEPT !.name = n, !.qubits = q, !.params = p]

MeasureRecord(q, m, r) ==
  [NullRecord EXCEPT !.name = Name("measure"), !.qubits = q,
                     !.memory = m, !.register = r]

SnapshotFields ==
  {Absent, Field("reals", <<1>>)}
    \cup {ListField("strings", l) : l \in SeqsUpTo({<<"X">>, <<"Z", "X">>}, MaxLabels)}

SnapshotRecord(p) == [NullRecord EXCEPT !.name = Name("snapshot"), !.params = p]

MatFields(t) == PayloadFields(t) \cup {Field("strings", <<<<"X">>>>)}

\* a label of length k: an X followed by Zs
Ramp(k) == [i \in 1..k |-> IF i = 1 THEN "X" ELSE "Z"]

\* the first label: every label of the qubits' length n, and one each of
\* length n-2, n-1, n+1
FirstLabels(n) ==
  SeqsOfLen(PauliChars, n) \cup {Ramp(k) : k \in {n - 2, n - 1, n + 1} \cap Nat}

\* the labels after the first
MoreLabels(n) == {Ramp(k) : k \in {n - 1, n, n + 1} \cap Nat}

LabelLists(n) ==
  {<<>>} \cup
  {<<f>> \o m : f \in FirstLabels(n), m \in SeqsUpTo(MoreLabels(n), MaxLabels - 1)}

PauliRecord(q, l, c) ==
  [NullRecord EXCEPT !.name = Name("obs_pauli"), !.qubits = ListField("uints", q),
                     !.params = ListField("strings", l), !.coeffs = c]

\* a sub-register: fewer qubits than the longest parent list
SubRegs == SeqsUpTo(QubitIdx, MaxLen - 1)

ObsNames == {"obs_mat", "obs_dmat", "obs_vec", "obs_pauli", "obs"}

ObsRecord(n, q, r, p) ==
  [NullRecord EXCEPT !.name = Name(n), !.qubits = q,
                     !.sub_qubits = ListField("regs", r), !.sub_params = p]

----------------------------------------------------------------------------
(* State: the record js handed to the function named by called, and the     *)
(* result res it produced.  round counts how often the result of the Pauli  *)
(* constructor was fed back to it, prev is the call before that.            *)

Init ==
  /\ js = NullRecord
  /\ called = "none"
  /\ res = NoResult
  /\ round = 0
  /\ prev = [js |-> NullRecord, res |-> NoResult]

Call(f, j, r) ==
  /\ js' = j
  /\ called' = f
  /\ res' = r
  /\ UNCHANGED <<round, prev>>

Call_json_to_op ==
  /\ called = "none"
  /\ \E ub \in UBChars :
       \/ \E n \in NameFields, q \in QubitFields, p \in RealFields :
            Call("json_to_op", GateRecord(n, q, p), json_to_op(GateRecord(n, q, p), ub))
       \/ \E q \in QubitFields, m \in UintFields, r \in UintFields :
            Call("json_to_op", MeasureRecord(q, m, r),
                 json_to_op(MeasureRecord(q, m, r), ub))
       \/ \E p \in SnapshotFields :
            Call("json_to_op", SnapshotRecord(p), json_to_op(SnapshotRecord(p), ub))

Call_json_to_op_gate ==
  /\ called = "none"
  /\ \E n \in NameFields, q \in QubitFields, p \in RealFields :
       Call("json_to_op_gate", GateRecord(n, q, p), json_to_op_gate(GateRecord(n, q, p)))

Call_json_to_op_measure ==
  /\ called = "none"
  /\ \E q \in QubitFields, m \in UintFields, r \in UintFields :
       Call("json_to_op_measure", MeasureRecord(q, m, r),
            json_to_op_measure(MeasureRecord(q, m, r)))

Call_json_to_op_reset ==
  /\ called = "none"
  /\ \E q \in QubitFields, p \in RealFields :
       Call("json_to_op_reset", GateRecord(Name("reset"), q, p),
            json_to_op_reset(GateRecord(Name("reset"), q, p)))

Call_json_to_op_snapshot ==
  /\ called = "none"
  /\ \E p \in SnapshotFields :
       Call("json_to_op_snapshot", SnapshotRecord(p), json_to_op_snapshot(SnapshotRecord(p)))

Call_json_to_op_mat ==
  /\ called = "none"
  /\ \E q \in QubitFields, p \in MatFields("cmatrix") :
       Call("json_to_op_mat", GateRecord(Name("mat"), q, p),
            json_to_op_mat(GateRecord(Name("mat"), q, p)))

Call_json_to_op_dmat ==
  /\ called = "none"
  /\ \E q \in QubitFields, p \in MatFields("complex") :
       Call("json_to_op_dmat", GateRecord(Name("dmat"), q, p),
            json_to_op_dmat(GateRecord(Name("dmat"), q, p)))

Call_json_to_op_kraus ==
  /\ called = "none"
  /\ \E q \in QubitFields, p \in MatFields("cmatrices") :
       Call("json_to_op_kraus", GateRecord(Name("kraus"), q, p),
            json_to_op_kraus(GateRecord(Name("kraus"), q, p)))

Call_json_to_op_probs ==
  /\ called = "none"
  /\ \E q \in QubitFields, p \in MatFields("reals") :
       Call("json_to_op_probs", GateRecord(Name("probs"), q, p),
            json_to_op_probs(GateRecord(Name("probs"), q, p)))

Call_json_to_op_obs_pauli ==
  /\ called = "none"
  /\ \E q \in QubitLists : \E l \in LabelLists(Len(q)) :
       \E c \in ComplexFields, ub \in UBChars :
         Call("json_to_op_obs_pauli", PauliRecord(q, l, c),
              json_to_op_obs_pauli(PauliRecord(q, l, c), ub))

\* the caller hands the qubits and labels of a returned Op back to the
\* constructor
Refeed ==
  /\ called = "json_to_op_obs_pauli"
  /\ round = 0
  /\ res.err = "OK"
  /\ \E ub \in UBChars :
       LET j == [js EXCEPT !.qubits = Field("uints", res.op.qubits),
                           !.params = Field("strings", res.op.params_string)]
       IN  /\ js' = j
           /\ res' = json_to_op_obs_pauli(j, ub)
  /\ prev' = [js |-> js, res |-> res]
  /\ round' = round + 1
  /\ UNCHANGED called

Call_check_qubits ==
  /\ called = "none"
  /\ \E q \in QubitLists :
       Call("check_qubits", [NullRecord EXCEPT !.qubits = ListField("uints", q)],
            [err |-> check_qubits(q), op |-> DefaultOp])

Call_json_to_op_obs_mat ==
  /\ called = "none"
  /\ \E q \in QubitFields, r \in SeqsUpTo(SubRegs, MaxSub),
        p \in PayloadFields("cmatrices") :
       Call("json_to_op_obs_mat", ObsRecord("obs_mat", q, r, p),
            json_to_op_obs_mat(ObsRecord("obs_mat", q, r, p)))

Call_json_to_op_obs_dmat ==
  /\ called = "none"
  /\ \E q \in QubitFields, r \in SeqsUpTo(SubRegs, MaxSub),
        p \in PayloadFields("cvectors") :
       Call("json_to_op_obs_dmat", ObsRecord("obs_dmat", q, r, p),
            json_to_op_obs_dmat(ObsRecord("obs_dmat", q, r, p)))

Call_json_to_op_obs_vec ==
  /\ called = "none"
  /\ \E q \in QubitFields, r \in SeqsUpTo(SubRegs, MaxSub),
        p \in PayloadFields("cvectors") :
       Call("json_to_op_obs_vec", ObsRecord("obs_vec", q, r, p),
            json_to_op_obs_vec(ObsRecord("obs_vec", q, r, p)))

Call_json_to_op_obs ==
  /\ called = "none"
  /\ \E n \in ObsNames, q \in QubitFields, r \in SeqsUpTo(SubRegs, MaxSub),
        p \in PayloadFields("cvectors"), ub \in UBChars :
       Call("json_to_op_obs", ObsRecord(n, q, r, p),
            json_to_op_obs(ObsRecord(n, q, r, p), ub))

\* the dispatcher and the constructors it reaches
Next ==
  \/ Call_json_to_op
  \/ Call_json_to_op_gate
  \/ Call_json_to_op_measure
  \/ Call_json_to_op_reset
  \/ Call_json_to_op_snapshot
  \/ Call_json_to_op_mat
  \/ Call_json_to_op_dmat
  \/ Call_json_to_op_kraus
  \/ Call_json_to_op_probs

Spec == Init /\ [][Next]_vars

\* the Pauli observable constructor
NextPauli ==
  \/ Call_json_to_op_obs_pauli
  \/ Refeed

SpecPauli == Init /\ [][NextPauli]_vars

\* the observables that are not dispatched, and the qubit check they use
NextObs ==
  \/ Call_check_qubits
  \/ Call_json_to_op_obs_mat
  \/ Call_json_to_op_obs_dmat
  \/ Call_json_to_op_obs_vec
  \/ Call_json_to_op_obs

SpecObs == Init /\ [][NextObs]_vars


----------------------------------------------------------------------------
(* Properties *)

Distinct(s) == \A a, b \in 1..Len(s) : a # b => s[a] # s[b]

Ascending(s) == \A a, b \in 1..Len(s) : a < b => s[a] < s[b]

PairwiseDisjoint(regs) ==
  /\ \A i \in 1..Len(regs) : Distinct(regs[i])
  /\ \A i, k \in 1..Len(regs) : i # k => Range(regs[i]) \cap Range(regs[k]) = {}

OfLength(f, n) == f.present /\ Len(f.val) = n

\* the record's qubits, labels and coefficients as lists
InQubits(j) == GetValue(j.qubits, <<>>)

InLabels(j) == GetValue(j.params, <<>>)

InCoeffs(j) == GetValue(j.coeffs, <<>>)

LabelsFit(j) ==
  \A i \in 1..Len(InLabels(j)) : Len(InLabels(j)[i]) = Len(InQubits(j))

FirstCall(f) == called = f /\ round = 0

\* C1 (as stated): a matrix, diagonal or vector observable over valid parent
\* qubits is constructed only if the sub_qubits lists are pairwise disjoint
\* and their union is exactly the set of parent qubits; every other
\* sub_qubits specification fails with BadPartition.
C1_ExactPartition ==
  (/\ called \in {"json_to_op_obs_mat", "json_to_op_obs_dmat", "json_to_op_obs_vec"}
   /\ InQubits(js) # <<>>
   /\ Distinct(InQubits(js)))
  => LET regs == GetValue(js.sub_qubits, <<>>)
         partition == /\ PairwiseDisjoint(regs)
                      /\ QSet(regs) = Range(InQubits(js))
     IN  /\ res.err = "OK" => partition
         /\ ~partition => res.err = "BadPartition"

\* C2 (as stated): check_qubits rejects the empty list with EmptyQubits,
\* rejects every list with a repeated index with DuplicateQubits, and accepts
\* exactly the non-empty lists of pairwise distinct indices.
C2_RejectsDuplicates ==
  called = "check_qubits"
  => LET q == InQubits(js)
     IN  /\ q = <<>> => res.err = "EmptyQubits"
         /\ (q # <<>> /\ ~Distinct(q)) => res.err = "DuplicateQubits"
         /\ (q # <<>> /\ Distinct(q)) => res.err = "OK"

\* C3 (as stated): the Pauli constructor, given non-empty qubits and a
\* non-empty label list of which some label has a length other than the
\* number of qubits, fails with LabelLengthMismatch.
C3_LabelLengthChecked ==
  (/\ FirstCall("json_to_op_obs_pauli")
   /\ InQubits(js) # <<>>
   /\ InLabels(js) # <<>>
   /\ ~LabelsFit(js))
  => res.err = "LabelLengthMismatch"

\* C4: for pairwise distinct qubits and labels of the qubits' length, the
\* returned qubits are the given ones in ascending order, and in every
\* returned label the character at the position of a qubit is the character
\* the given label had at the position of that qubit in the given list.
C4_Canonical ==
  (/\ FirstCall("json_to_op_obs_pauli")
   /\ Distinct(InQubits(js))
   /\ LabelsFit(js)
   /\ res.err = "OK")
  => LET q == InQubits(js)
         out == res.op.qubits
         lab == res.op.params_string
     IN  /\ Ascending(out)
         /\ Len(out) = Len(q)
         /\ Range(out) = Range(q)
         /\ Len(lab) = Len(InLabels(js))
         /\ \A i \in 1..Len(lab) :
              /\ Len(lab[i]) = Len(q)
              /\ \A k, p \in 1..Len(q) :
                   out[k] = q[p] => lab[i][k] = InLabels(js)[i][p]

\* qubits given out of order, two labels, both reordered
C4_Witness ==
  /\ FirstCall("json_to_op_obs_pauli")
  /\ InQubits(js) = <<2, 0, 1>>
  /\ InLabels(js) = <<<<"X", "Z", "Z">>, <<"X", "Z", "Z">>>>
  /\ res.err = "OK"
  /\ res.op.qubits = <<0, 1, 2>>
  /\ res.op.params_string = <<<<"Z", "Z", "X">>, <<"Z", "Z", "X">>>>

\* C9: with non-empty qubits and a non-empty list of labels that all have
\* the qubits' length, the Pauli constructor succeeds exactly if there are
\* as many coeffs as labels, and fails with CoeffCountMismatch otherwise.
C9_CoeffCount ==
  (/\ FirstCall("json_to_op_obs_pauli")
   /\ InQubits(js) # <<>>
   /\ InLabels(js) # <<>>
   /\ LabelsFit(js))
  => /\ res.err = "OK" <=> Len(InCoeffs(js)) = Len(InLabels(js))
     /\ res.err # "OK" => res.err = "CoeffCountMismatch"

\* two labels over two qubits and a single coefficient
C9_Witness ==
  /\ FirstCall("json_to_op_obs_pauli")
  /\ InQubits(js) = <<0, 1>>
  /\ Len(InLabels(js)) = 2
  /\ LabelsFit(js)
  /\ Len(InCoeffs(js)) = 1
  /\ res.err = "CoeffCountMismatch"

\* C10: handing the qubits and labels that the Pauli constructor returned
\* for a valid record (distinct qubits, fitting labels, matching coeffs) back
\* to it returns the same qubits and the same labels.
C10_Idempotent ==
  (/\ called = "json_to_op_obs_pauli"
   /\ round = 1
   /\ Distinct(InQubits(prev.js))
   /\ LabelsFit(prev.js))
  => /\ res.err = "OK"
     /\ res.op.qubits = prev.res.op.qubits
     /\ res.op.params_string = prev.res.op.params_string

\* the first call reordered qubits and label, the second left them alone
C10_Witness ==
  /\ called = "json_to_op_obs_pauli"
  /\ round = 1
  /\ InQubits(prev.js) = <<2, 0, 1>>
  /\ InLabels(prev.js) = <<<<"X", "Z", "Z">>>>
  /\ InQubits(js) = <<0, 1, 2>>
  /\ res.err = "OK"
  /\ res.op.params_string = <<<<"Z", "Z", "X">>>>

\* the Op a generic gate record yields: only name, qubits and real params set
GateOp(j) ==
  [DefaultOp EXCEPT !.name = j.name.val, !.qubits = InQubits(j),
                    !.params_double = GetValue(j.params, <<>>)]

Numeric(f) == ~f.present \/ f.type \in {"reals", "empty"}

\* C5: a record whose name is non-empty and none of measure, reset, mat,
\* dmat, probs, obs_pauli, snapshot, kraus, whose qubits are non-empty and
\* whose params are numeric or absent, is accepted by json_to_op as a gate:
\* kind = name, qubits as given (repeated indices included), real params =
\* params (empty when absent).
C5_DefaultToGate ==
  (/\ called = "json_to_op"
   /\ js.name.present
   /\ js.name.val # ""
   /\ js.name.val \notin RecognizedKinds
   /\ InQubits(js) # <<>>
   /\ Numeric(js.params))
  => res = Return(GateOp(js))

\* a name that differs from a recognized kind in case only, a repeated qubit
C5_Witness ==
  /\ called = "json_to_op"
  /\ js.name.val = "Measure"
  /\ InQubits(js) = <<1, 0, 1>>
  /\ js.params = Field("reals", <<1, 2>>)
  /\ res.err = "OK"
  /\ res.op.name = "Measure"
  /\ res.op.qubits = <<1, 0, 1>>
  /\ res.op.params_double = <<1, 2>>

\* C6 (as stated): json_to_op fails with UnknownName on a record named
\* obs_mat, obs_dmat, obs_vec, bfunc or roerror.
C6_ReservedRejected ==
  (called = "json_to_op" /\ js.name.val \in ReservedKinds)
  => res.err = "UnknownName"

\* C6 (amended): json_to_op never fails with UnknownName; a record named
\* obs_mat, obs_dmat, obs_vec, bfunc or roerror is handled as a generic gate:
\* with non-empty qubits and numeric or absent params it yields the gate Op
\* of that name, with empty or absent qubits it fails with EmptyQubits.
C6_ReservedIsGate ==
  called = "json_to_op"
  => /\ res.err # "UnknownName"
     /\ js.name.val \in ReservedKinds =>
          /\ (InQubits(js) # <<>> /\ Numeric(js.params)) => res = Return(GateOp(js))
          /\ InQubits(js) = <<>> => res.err = "EmptyQubits"

C6_Witness ==
  /\ called = "json_to_op"
  /\ js.name.val = "obs_mat"
  /\ InQubits(js) = <<0, 1>>
  /\ res.err = "OK"
  /\ res.op.name = "obs_mat"

\* C7 (as stated): with non-empty qubits of length n, the measure
\* constructor succeeds exactly if memory is absent or of length n and
\* register is absent or of length n; any other present list, the empty one
\* included, fails with LengthMismatch.
C7_PresentListsFit ==
  (called = "json_to_op_measure" /\ InQubits(js) # <<>>)
  => LET n == Len(InQubits(js))
         fits == /\ ~js.memory.present \/ OfLength(js.memory, n)
                 /\ ~js.register.present \/ OfLength(js.register, n)
     IN  /\ res.err = "OK" <=> fits
         /\ res.err # "OK" => res.err = "LengthMismatch"

\* C7 (amended): with non-empty qubits of length n, the measure constructor
\* succeeds exactly if memory is absent, empty or of length n and register
\* is absent, empty or of length n, and fails with LengthMismatch otherwise;
\* a returned Op has memory and registers as given, each empty or of length n.
C7_NonEmptyListsFit ==
  (called = "json_to_op_measure" /\ InQubits(js) # <<>>)
  => LET n == Len(InQubits(js))
         fits == /\ Len(GetValue(js.memory, <<>>)) \in {0, n}
                 /\ Len(GetValue(js.register, <<>>)) \in {0, n}
     IN  /\ res.err = "OK" <=> fits
         /\ res.err # "OK" => res.err = "LengthMismatch"
         /\ res.err = "OK" =>
              /\ res.op.memory = GetValue(js.memory, <<>>)
              /\ res.op.registers = GetValue(js.register, <<>>)
              /\ Len(res.op.memory) \in {0, n}
              /\ Len(res.op.registers) \in {0, n}

\* memory present but empty, register omitted: accepted
C7_Witness ==
  /\ called = "json_to_op_measure"
  /\ InQubits(js) = <<0, 1>>
  /\ js.memory = EmptyList
  /\ ~js.register.present
  /\ res.err = "OK"
  /\ res.op.memory = <<>>

\* C8 (as stated): with non-empty qubits of length n, the reset constructor
\* yields n zeros when params is absent; when params is present it succeeds,
\* keeping the values, exactly if params has length n, and fails with
\* LengthMismatch for any other present list, the empty one included.
C8_PresentParamsFit ==
  (called = "json_to_op_reset" /\ InQubits(js) # <<>> /\ Numeric(js.params))
  => LET n == Len(InQubits(js))
     IN  /\ ~js.params.present =>
              res.err = "OK" /\ res.op.params_double = Zeros(n)
         /\ js.params.present =>
              /\ res.err = "OK" <=> Len(js.params.val) = n
              /\ res.err = "OK" => res.op.params_double = js.params.val
              /\ res.err # "OK" => res.err = "LengthMismatch"

\* C8 (amended): with non-empty qubits of length n, the reset constructor
\* yields n zeros when params is absent or present but empty; when params is
\* present and non-empty it succeeds, keeping the values, exactly if params
\* has length n, and fails with LengthMismatch otherwise.
C8_NonEmptyParamsFit ==
  (called = "json_to_op_reset" /\ InQubits(js) # <<>> /\ Numeric(js.params))
  => LET n == Len(InQubits(js))
         params == GetValue(js.params, <<>>)
     IN  /\ params = <<>> =>
              /\ res.err = "OK"
              /\ Len(res.op.params_double) = n
              /\ \A i \in 1..n : res.op.params_double[i] = 0
         /\ params # <<>> =>
              /\ res.err = "OK" <=> Len(params) = n
              /\ res.err = "OK" => res.op.params_double = params
              /\ res.err # "OK" => res.err = "LengthMismatch"

\* params present but empty: defaulted to zeros like an absent one
C8_Witness ==
  /\ called = "json_to_op_reset"
  /\ InQubits(js) = <<2, 0>>
  /\ js.params = EmptyList
  /\ res.err = "OK"
  /\ res.op.params_double = <<0, 0>>

====
